---------------------------- MODULE Spec2Model ----------------------------
(***************************************************************************)
(* Model of the numerical core of the calculus / gradient-descent          *)
(* visualisation scripts:                                                  *)
(*   application_calculus.py  - the update_graphs callback (1-D linear fit *)
(*                              by gradient descent, derivative curve,     *)
(*                              learning-rate-impact runs) and the module  *)
(*                              globals X, y it works on;                  *)
(*   integration.py           - get_function, calculate_riemann_sum and    *)
(*                              the update_graph callback;                 *)
(*   derivation_visualization.py - get_function_and_derivative;            *)
(*   gradient_descent_visualization.py - gradient_descent on the surface   *)
(*                              f(x,y) = x^2/2 + y^2 + sin(x)cos(y);       *)
(*   function_visualization.py - FunctionUI: process(), the run() loop and *)
(*                              the animation and sound part of draw().    *)
(*                                                                         *)
(* Python floats are modelled as binary fixed-point numbers: a value v is  *)
(* the integer v * 2^FracBits, every operation rounds its exact result to  *)
(* the nearest representable number, and a result whose magnitude exceeds  *)
(* FMax is the non-finite value (inf / nan of the float arithmetic).       *)
(***************************************************************************)
EXTENDS Integers, Sequences, FiniteSets, TLC

-----------------------------------------------------------------------------
(* Bounds of the model *)

\* fractional bits of the fixed-point numbers
FracBits == 10
\* number of points of the regression dataset (100 in the source)
NData == 3
\* number of points of the derivative curve (100 in the source)
NGrid == 3
\* largest value of the iterations argument
MaxIter == 2
\* number of update_graphs invocations followed
MaxCalls == 2
\* terms of the series that stand for np.sin and np.exp
SeriesTerms == 9
\* largest number of rectangles of a Riemann sum (the slider goes to 50)
MaxN == 4
\* largest n_steps of a gradient_descent call (the callback passes 50)
MaxSteps == 2

-----------------------------------------------------------------------------
(* Fixed-point arithmetic standing for the float arithmetic *)

Scale == 2 ^ FracBits
FMax == 2 ^ 29
NonFinite == FMax + 1

Abs(a) == IF a < 0 THEN -a ELSE a
Sign(a) == IF a < 0 THEN -1 ELSE 1

\* a / b for integers, b > 0, rounded to nearest (half away from zero)
RoundDiv(a, b) == Sign(a) * ((2 * Abs(a) + b) \div (2 * b))

Clip(v) == IF v > FMax \/ v < -FMax THEN NonFinite ELSE v

FromInt(i) == i * Scale
\* the float nearest to the decimal literal n/d
FromRatio(n, d) == RoundDiv(n * Scale, d)

FNeg(a) == IF a = NonFinite THEN NonFinite ELSE -a
FAdd(a, b) == IF a = NonFinite \/ b = NonFinite THEN NonFinite ELSE Clip(a + b)
FSub(a, b) == FAdd(a, FNeg(b))

\* a * b: the exact product of the two magnitudes, split in high and low
\* parts so that no intermediate exceeds the result, rounded to nearest
FMulMag(A, B) ==
    LET Ah == A \div Scale
        Al == A % Scale
        Bh == B \div Scale
        Bl == B % Scale
    IN  IF Bh # 0 /\ Ah > (FMax \div Scale) \div Bh
        THEN NonFinite
        ELSE Clip(Ah * Bh * Scale + Ah * Bl + Al * Bh + RoundDiv(Al * Bl, Scale))

FMul(a, b) ==
    IF a = NonFinite \/ b = NonFinite THEN NonFinite
    ELSE LET p == FMulMag(Abs(a), Abs(b))
         IN  IF p = NonFinite THEN NonFinite ELSE Sign(a) * Sign(b) * p

\* a / n for a positive integer n
FDivInt(a, n) == IF a = NonFinite THEN NonFinite ELSE RoundDiv(a, n)

\* i * a for a non-negative integer i
RECURSIVE FTimes(_, _)
FTimes(i, a) == IF i = 0 THEN 0 ELSE FAdd(a, FTimes(i - 1, a))

\* np.sum of a sequence
RECURSIVE SumTo(_, _)
SumTo(s, k) == IF k = 0 THEN 0 ELSE FAdd(SumTo(s, k - 1), s[k])
FSum(s) == SumTo(s, Len(s))

\* np.mean of a non-empty sequence
FMean(s) == FDivInt(FSum(s), Len(s))

\* np.linspace(start, stop, num), num >= 2: start + i * step with
\* step = (stop - start) / (num - 1), and the last sample set to stop
Linspace(start, stop, num) ==
    LET step == FDivInt(FSub(stop, start), num - 1)
    IN  [i \in 1..num |->
            IF i = num THEN stop ELSE FAdd(FTimes(i - 1, step), start)]

\* x ** 2 and x ** 3
Sq(x) == FMul(x, x)
Cube(x) == FMul(FMul(x, x), x)

\* np.sin(x): the sine series x - x^3/3! + x^5/5! - ..., term by term
RECURSIVE SinSeries(_, _, _)
SinSeries(x, term, k) ==
    IF k > SeriesTerms THEN 0
    ELSE FAdd(term,
              SinSeries(x, FNeg(FDivInt(FMul(FMul(term, x), x), (2 * k) * (2 * k + 1))), k + 1))
Sin(x) == SinSeries(x, x, 1)

\* np.exp(x): the exponential series 1 + x + x^2/2! + ..., term by term
RECURSIVE ExpSeries(_, _, _)
ExpSeries(x, term, k) ==
    IF k > SeriesTerms THEN 0
    ELSE FAdd(term, ExpSeries(x, FDivInt(FMul(term, x), k), k + 1))
Exp(x) == ExpSeries(x, FromInt(1), 1)

\* np.cos(x): the cosine series 1 - x^2/2! + x^4/4! - ..., term by term
RECURSIVE CosSeries(_, _, _)
CosSeries(x, term, k) ==
    IF k > SeriesTerms THEN 0
    ELSE FAdd(term,
              CosSeries(x, FNeg(FDivInt(FMul(FMul(term, x), x), (2 * k - 1) * (2 * k))), k + 1))
Cos(x) == CosSeries(x, FromInt(1), 1)

-----------------------------------------------------------------------------
(* State *)

VARIABLES
    X,          \* application_calculus: global X, the dataset's inputs, shape (n, 1)
    y,          \* application_calculus: global y, [shape, v]; "col" is (n, 1), "flat" is (n,)
    loaded,     \* history: the X and y built when application_calculus was loaded
    log,        \* history: arguments and results of the update_graphs invocations
    req,        \* integration / derivation_visualization: the call to make
    res,        \* its result: <<>> before the call, <<result>> after it
    paths,      \* history: arguments and results of the gradient_descent calls
    ui          \* function_visualization: the FunctionUI object, its widgets and sounds

vars == <<X, y, loaded, log, req, res, paths, ui>>

-----------------------------------------------------------------------------
(* application_calculus.py *)

\* np.random.seed(42); np.random.normal(0, 1, ...): the first draws of the
\* seeded generator, in units of 1/10000
SeededNormal == <<4967, -1383, 6477, 15230, -2342, -2341, 15792, 7674, -4695, 5426>>
Noise == [i \in 1..NData |-> FromRatio(SeededNormal[i], 10000)]

\* the learning_rate and function_select arguments of an invocation
LearningRates == {0, FromRatio(1, 10)}
FunctionSelects == {"x2", "x3", "sin"}

\* X = np.linspace(0, 10, 100).reshape(-1, 1)
DataX == Linspace(0, FromInt(10), NData)

\* y = 2 * X + 1 + np.random.normal(0, 1, (100, 1))
DataY ==
    [shape |-> "col",
     v |-> [i \in 1..NData |->
              FAdd(FAdd(FMul(FromInt(2), DataX[i]), FromInt(1)), Noise[i])]]

\* the index pairs <<i, j>> of the array that numpy builds from a (m, 1)
\* array and the array ys: element-wise when ys is (m, 1), the full
\* m x n table (row-major) when ys is (n,)
Pairs(m, ys) ==
    IF ys.shape = "col"
    THEN [k \in 1..m |-> <<k, k>>]
    ELSE LET n == Len(ys.v)
         IN  [k \in 1..(m * n) |-> <<((k - 1) \div n) + 1, ((k - 1) % n) + 1>>]

\* y_pred = theta0 + theta1 * X
Predict(theta0, theta1, Xs) ==
    [i \in 1..Len(Xs) |-> FAdd(theta0, FMul(theta1, Xs[i]))]

\* y - y_pred
Residuals(y_pred, ys) ==
    LET ij == Pairs(Len(y_pred), ys)
    IN  [k \in 1..Len(ij) |-> FSub(ys.v[ij[k][2]], y_pred[ij[k][1]])]

\* X * (y - y_pred)
Weighted(Xs, resid, ys) ==
    LET ij == Pairs(Len(Xs), ys)
    IN  [k \in 1..Len(ij) |-> FMul(Xs[ij[k][1]], resid[k])]

\* np.mean((y_pred - y) ** 2)
Loss(y_pred, ys) ==
    LET ij == Pairs(Len(y_pred), ys)
    IN  FMean([k \in 1..Len(ij) |-> Sq(FSub(y_pred[ij[k][1]], ys.v[ij[k][2]]))])

\* faulty variant: the loss is taken from the predictions of the updated parameters
GDStepLossAfterUpdate(st, lr, Xs, ys) ==
    LET m == Len(Xs)
        y_pred == Predict(st.theta0, st.theta1, Xs)
        resid == Residuals(y_pred, ys)
        d_theta0 == FMul(FNeg(FDivInt(FromInt(2), m)), FSum(resid))
        d_theta1 == FMul(FNeg(FDivInt(FromInt(2), m)), FSum(Weighted(Xs, resid, ys)))
        theta0 == FSub(st.theta0, FMul(lr, d_theta0))
        theta1 == FSub(st.theta1, FMul(lr, d_theta1))
        loss == Loss(Predict(theta0, theta1, Xs), ys)
    IN  [theta0 |-> theta0,
         theta1 |-> theta1,
         loss_history |-> Append(st.loss_history, loss),
         parameter_history |-> Append(st.parameter_history, <<theta0, theta1>>)]

\* one pass of the loop body of the descent
GDStep(st, lr, Xs, ys) ==
    LET m == Len(Xs)
        y_pred == Predict(st.theta0, st.theta1, Xs)
        resid == Residuals(y_pred, ys)
        d_theta0 == FMul(FNeg(FDivInt(FromInt(2), m)), FSum(resid))
        d_theta1 == FMul(FNeg(FDivInt(FromInt(2), m)), FSum(Weighted(Xs, resid, ys)))
        theta0 == FSub(st.theta0, FMul(lr, d_theta0))
        theta1 == FSub(st.theta1, FMul(lr, d_theta1))
        loss == Loss(y_pred, ys)
    IN  [theta0 |-> theta0,
         theta1 |-> theta1,
         loss_history |-> Append(st.loss_history, loss),
         parameter_history |-> Append(st.parameter_history, <<theta0, theta1>>)]

\* faulty variant: the start point is recorded as the trajectory's first entry
FitStartRecorded ==
    [theta0 |-> 0, theta1 |-> 0, loss_history |-> <<>>,
     parameter_history |-> << <<0, 0>> >>]

\* theta0, theta1 = 0, 0; loss_history = []; parameter_history = []
FitStart ==
    [theta0 |-> 0, theta1 |-> 0, loss_history |-> <<>>, parameter_history |-> <<>>]

\* for i in range(int(iterations)): ...
RECURSIVE Descend(_, _, _, _, _)
Descend(st, k, lr, Xs, ys) ==
    IF k = 0 THEN st ELSE Descend(GDStep(st, lr, Xs, ys), k - 1, lr, Xs, ys)

Fit(lr, iterations, Xs, ys) == Descend(FitStart, iterations, lr, Xs, ys)

\* the derivative plot's curve, assigned to y
DerivCurve(function_select) ==
    LET x == Linspace(FromInt(-5), FromInt(5), NGrid)
    IN  [shape |-> "flat",
         v |-> [i \in 1..NGrid |->
                  IF function_select = "x2" THEN Sq(x[i])
                  ELSE IF function_select = "x3" THEN Cube(x[i])
                  ELSE Sin(x[i])]]

\* learning_rates = [0.01, 0.1, 0.5]
ImpactRates == <<FromRatio(1, 100), FromRatio(1, 10), FromRatio(1, 2)>>

\* faulty variant: a run goes on from the parameters the locals hold
ImpactStartWarm(locals) ==
    [theta0 |-> locals.theta0, theta1 |-> locals.theta1,
     loss_history |-> <<>>, parameter_history |-> <<>>]

\* theta0, theta1 = 0, 0; loss_hist = [] at the head of the run of each
\* rate, whatever the locals theta0, theta1 hold from the fit before
ImpactStart(locals) ==
    [theta0 |-> 0, theta1 |-> 0, loss_history |-> <<>>, parameter_history |-> <<>>]

\* for lr in learning_rates: ...: the run of the r-th rate, made after the
\* runs of the rates before it; `locals` is what the main fit left in
\* theta0, theta1
RECURSIVE ImpactRun(_, _, _, _, _)
ImpactRun(r, locals, iterations, Xs, ys) ==
    Descend(ImpactStart(IF r = 1 THEN locals
                        ELSE ImpactRun(r - 1, locals, iterations, Xs, ys)),
            iterations, ImpactRates[r], Xs, ys)

\* the module is loaded: the dataset is built
AppLoaded ==
    /\ X = DataX
    /\ y = DataY
    /\ loaded = [X |-> X, y |-> y]
    /\ log = <<>>

\* the script is not running
AppIdle ==
    /\ X = <<>>
    /\ y = [shape |-> "col", v |-> <<>>]
    /\ loaded = [X |-> X, y |-> y]
    /\ log = <<>>

update_graphs(learning_rate, iterations, function_select) ==
    /\ Len(log) < MaxCalls
    /\ LET main == Fit(learning_rate, iterations, X, y)
           curve == DerivCurve(function_select)
           impact == [r \in 1..Len(ImpactRates) |->
                        ImpactRun(r, main, iterations, X, curve).loss_history]
       IN  /\ y' = curve
           /\ log' = Append(log,
                 [learning_rate |-> learning_rate,
                  iterations |-> iterations,
                  function_select |-> function_select,
                  y_at_entry |-> y,
                  y_at_exit |-> curve,
                  theta0 |-> main.theta0,
                  theta1 |-> main.theta1,
                  loss_history |-> main.loss_history,
                  parameter_history |-> main.parameter_history,
                  impact |-> impact])
    /\ UNCHANGED <<X, loaded, req, res, paths, ui>>

-----------------------------------------------------------------------------
(* integration.py and derivation_visualization.py *)

\* a dict, and dict.get(key, default)
DictGet(d, key, default) == IF key \in DOMAIN d THEN d[key] ELSE default

\* the function table of get_function: key -> (lambda, label); the keys
\* and labels are written in ASCII, x^2 for the source's x-squared
IntegrationFunctions ==
    ("x^2" :> <<"x**2", "f(x) = x^2">>) @@
    ("x^3" :> <<"x**3", "f(x) = x^3">>) @@
    ("sin(x)" :> <<"np.sin(x)", "f(x) = sin(x)">>) @@
    ("e^x" :> <<"np.exp(x)", "f(x) = e^x">>)

\* faulty variant: a missing key is an error (functions[func_name])
get_function_strict(func_name) ==
    IF func_name \in DOMAIN IntegrationFunctions
    THEN IntegrationFunctions[func_name] ELSE <<"KeyError", func_name>>

get_function(func_name) ==
    DictGet(IntegrationFunctions, func_name, IntegrationFunctions["x^2"])

\* the function table of get_function_and_derivative:
\* key -> (lambda, derivative lambda, label, derivative label)
DerivativeFunctions ==
    ("x^2" :> <<"x**2", "2*x", "f(x) = x^2", "f'(x) = 2x">>) @@
    ("x^3" :> <<"x**3", "3*x**2", "f(x) = x^3", "f'(x) = 3x^2">>) @@
    ("sin(x)" :> <<"np.sin(x)", "np.cos(x)", "f(x) = sin(x)", "f'(x) = cos(x)">>) @@
    ("e^x" :> <<"np.exp(x)", "np.exp(x)", "f(x) = e^x", "f'(x) = e^x">>) @@
    ("ln(x)" :> <<"np.log(np.abs(x))", "1/x", "f(x) = ln(x)", "f'(x) = 1/x">>) @@
    ("cos(x)" :> <<"np.cos(x)", "-np.sin(x)", "f(x) = cos(x)", "f'(x) = -sin(x)">>) @@
    ("tan(x)" :> <<"np.tan(x)", "1/np.cos(x)**2", "f(x) = tan(x)", "f'(x) = sec^2(x)">>)

get_function_and_derivative(func_name) ==
    DictGet(DerivativeFunctions, func_name, DerivativeFunctions["x^2"])

\* the lambdas of get_function applied to x
Apply(f, x) ==
    CASE f = "x**2" -> Sq(x)
      [] f = "x**3" -> Cube(x)
      [] f = "np.sin(x)" -> Sin(x)
      [] f = "np.exp(x)" -> Exp(x)

\* str.lower on the method strings the model draws
Lower(s) ==
    CASE s = "Left" -> "left"
      [] s = "RIGHT" -> "right"
      [] OTHER -> s

\* faulty variant: the method is matched whatever its case
MethodIsAnyCase(method, name) == Lower(method) = name

\* method == 'left', method == 'right'
MethodIs(method, name) == method = name

\* faulty variant: the left rule samples the right boundaries
calculate_riemann_sum_shifted(f, a, b, n, method) ==
    LET x == Linspace(a, b, n + 1)
        dx == FDivInt(FSub(b, a), n)
        x_sample ==
            IF MethodIs(method, "left") \/ MethodIs(method, "right")
            THEN [i \in 1..n |-> x[i + 1]]
            ELSE [i \in 1..n |-> FDivInt(FAdd(x[i], x[i + 1]), 2)]
    IN  [x |-> x, dx |-> dx, x_sample |-> x_sample,
         area |-> FSum([i \in 1..n |-> FMul(Apply(f, x_sample[i]), dx)])]

\* faulty variant: the step is taken over n + 1 parts
calculate_riemann_sum_widened(f, a, b, n, method) ==
    LET x == Linspace(a, b, n + 1)
        dx == FDivInt(FSub(b, a), n + 1)
        x_sample ==
            IF MethodIs(method, "left") THEN [i \in 1..n |-> x[i]]
            ELSE IF MethodIs(method, "right") THEN [i \in 1..n |-> x[i + 1]]
            ELSE [i \in 1..n |-> FDivInt(FAdd(x[i], x[i + 1]), 2)]
    IN  [x |-> x, dx |-> dx, x_sample |-> x_sample,
         area |-> FSum([i \in 1..n |-> FMul(Apply(f, x_sample[i]), dx)])]

calculate_riemann_sum(f, a, b, n, method) ==
    LET x == Linspace(a, b, n + 1)
        dx == FDivInt(FSub(b, a), n)
        x_sample ==
            IF MethodIs(method, "left") THEN [i \in 1..n |-> x[i]]
            ELSE IF MethodIs(method, "right") THEN [i \in 1..n |-> x[i + 1]]
            ELSE [i \in 1..n |-> FDivInt(FAdd(x[i], x[i + 1]), 2)]
    IN  [x |-> x, dx |-> dx, x_sample |-> x_sample,
         area |-> FSum([i \in 1..n |-> FMul(Apply(f, x_sample[i]), dx)])]

\* the inputs the calls are drawn from
FuncNames ==
    {"x^2", "x^3", "sin(x)", "e^x", "ln(x)", "cos(x)", "tan(x)", "", "x2", "sqrt(x)"}
Methods == {"left", "right", "midpoint", "Left", "RIGHT", "", "simpson"}
Lambdas == {"x**2", "x**3", "np.sin(x)", "np.exp(x)"}
Intervals == {<<0, FromInt(1)>>, <<0, FromInt(2)>>, <<FromInt(1), FromInt(2)>>}

Requests ==
    [op : {"get_function", "get_function_and_derivative"}, func_name : FuncNames]
    \cup [op : {"update_graph"}, func_name : FuncNames, n : 1..MaxN, method : Methods]
    \cup [op : {"calculate_riemann_sum"}, f : Lambdas, ab : Intervals,
          n : 1..MaxN, method : Methods]

\* a call is about to be made
CallDrawn ==
    /\ req \in Requests
    /\ res = <<>>

\* no call is made
CallIdle ==
    /\ req = [op |-> "none"]
    /\ res = <<>>

call_get_function ==
    /\ req.op = "get_function"
    /\ res = <<>>
    /\ res' = <<get_function(req.func_name)>>
    /\ UNCHANGED <<X, y, loaded, log, req, paths, ui>>

call_get_function_and_derivative ==
    /\ req.op = "get_function_and_derivative"
    /\ res = <<>>
    /\ res' = <<get_function_and_derivative(req.func_name)>>
    /\ UNCHANGED <<X, y, loaded, log, req, paths, ui>>

call_calculate_riemann_sum ==
    /\ req.op = "calculate_riemann_sum"
    /\ res = <<>>
    /\ res' = <<calculate_riemann_sum(req.f, req.ab[1], req.ab[2], req.n, req.method)>>
    /\ UNCHANGED <<X, y, loaded, log, req, paths, ui>>

\* the callback: f, f_label = get_function(func_name); a, b = 0, 2;
\* x_rect, dx, x_sample, area = calculate_riemann_sum(f, a, b, n, method)
update_graph ==
    /\ req.op = "update_graph"
    /\ res = <<>>
    /\ LET f == get_function(req.func_name)[1]
       IN  res' = <<calculate_riemann_sum(f, 0, FromInt(2), req.n, req.method)>>
    /\ UNCHANGED <<X, y, loaded, log, req, paths, ui>>

-----------------------------------------------------------------------------
(* gradient_descent_visualization.py *)

\* the surface f(x, y) = x**2/2 + y**2 + np.sin(x)*np.cos(y)
Surface(cx, cy) ==
    FAdd(FAdd(FDivInt(Sq(cx), 2), Sq(cy)), FMul(Sin(cx), Cos(cy)))

\* faulty variant: the y coordinate is updated from the already updated x
DescentStepSequential(p, learning_rate) ==
    LET grad_x == FAdd(p.current_x, FMul(Cos(p.current_y), Cos(p.current_x)))
        current_x == FSub(p.current_x, FMul(learning_rate, grad_x))
        grad_y == FSub(FMul(FromInt(2), p.current_y),
                       FMul(Sin(p.current_y), Sin(current_x)))
        current_y == FSub(p.current_y, FMul(learning_rate, grad_y))
        current_z == Surface(current_x, current_y)
    IN  [current_x |-> current_x,
         current_y |-> current_y,
         path_x |-> Append(p.path_x, current_x),
         path_y |-> Append(p.path_y, current_y),
         path_z |-> Append(p.path_z, current_z)]

\* one pass of the loop body of gradient_descent
DescentStep(p, learning_rate) ==
    LET grad_x == FAdd(p.current_x, FMul(Cos(p.current_y), Cos(p.current_x)))
        grad_y == FSub(FMul(FromInt(2), p.current_y),
                       FMul(Sin(p.current_y), Sin(p.current_x)))
        current_x == FSub(p.current_x, FMul(learning_rate, grad_x))
        current_y == FSub(p.current_y, FMul(learning_rate, grad_y))
        current_z == Surface(current_x, current_y)
    IN  [current_x |-> current_x,
         current_y |-> current_y,
         path_x |-> Append(p.path_x, current_x),
         path_y |-> Append(p.path_y, current_y),
         path_z |-> Append(p.path_z, current_z)]

\* for _ in range(n_steps): ...
RECURSIVE DescentLoop(_, _, _)
DescentLoop(p, k, learning_rate) ==
    IF k = 0 THEN p ELSE DescentLoop(DescentStep(p, learning_rate), k - 1, learning_rate)

\* faulty variant: the start point is given a z like every other point
gradient_descent_start_z(start_x, start_y, learning_rate, n_steps) ==
    LET p == DescentLoop([current_x |-> start_x, current_y |-> start_y,
                          path_x |-> <<start_x>>, path_y |-> <<start_y>>,
                          path_z |-> <<Surface(start_x, start_y)>>],
                         n_steps, learning_rate)
    IN  [path_x |-> p.path_x, path_y |-> p.path_y, path_z |-> p.path_z]

gradient_descent(start_x, start_y, learning_rate, n_steps) ==
    LET p == DescentLoop([current_x |-> start_x, current_y |-> start_y,
                          path_x |-> <<start_x>>, path_y |-> <<start_y>>,
                          path_z |-> <<>>],
                         n_steps, learning_rate)
    IN  [path_x |-> p.path_x, path_y |-> p.path_y, path_z |-> p.path_z]

\* the start points and learning rates the calls are drawn from (the
\* sliders go from -4 to 4 and from 0.01 to 0.5)
Starts == {<<FromInt(3), FromInt(3)>>, <<FromInt(-2), FromRatio(1, 2)>>}
DescentRates == {FromRatio(1, 10), FromRatio(1, 2)}

\* no call of gradient_descent has been made
DescentIdle == paths = <<>>

call_gradient_descent(start_x, start_y, learning_rate, n_steps) ==
    /\ Len(paths) < MaxCalls
    /\ LET r == gradient_descent(start_x, start_y, learning_rate, n_steps)
       IN  paths' = Append(paths,
                 [start_x |-> start_x,
                  start_y |-> start_y,
                  learning_rate |-> learning_rate,
                  n_steps |-> n_steps,
                  path_x |-> r.path_x,
                  path_y |-> r.path_y,
                  path_z |-> r.path_z])
    /\ UNCHANGED <<X, y, loaded, log, req, res, ui>>

-----------------------------------------------------------------------------
(* function_visualization.py *)

\* 2 * math.pi, and the reduction of an angle to [-pi, pi] that math.sin
\* and math.cos make before they evaluate
TwoPi == FromRatio(62832, 10000)
Reduce(a) == a - RoundDiv(a, TwoPi) * TwoPi
MathSin(a) == IF a = NonFinite THEN NonFinite ELSE Sin(Reduce(a))
MathCos(a) == IF a = NonFinite THEN NonFinite ELSE Cos(Reduce(a))

\* self.functions
UIFunctions ==
    ("Square" :> "x**2") @@ ("Double" :> "x*2") @@ ("Cube" :> "x**3") @@ ("Half" :> "x/2")

\* the lambdas of self.functions applied to v
UIApply(f, v) ==
    CASE f = "x**2" -> Sq(v)
      [] f = "x*2" -> FMul(v, FromInt(2))
      [] f = "x**3" -> Cube(v)
      [] f = "x/2" -> FDivInt(v, 2)

\* the texts the entry and the combobox (which accepts typed text) may hold
ValueTexts == {"0", "2", "abc"}
FunctionTexts == {"Square", "Half", "Sqrt"}

\* float(text): the number, or ValueError
ParseFloat(text) ==
    CASE text = "0" -> [ok |-> TRUE, v |-> 0]
      [] text = "2" -> [ok |-> TRUE, v |-> FromInt(2)]
      [] OTHER -> [ok |-> FALSE, v |-> 0]

\* the object after __init__; audio tells whether the two sounds were loaded
\* (process_sound and bg_music are both set, or both None)
NewUI(audio) ==
    [running |-> TRUE,
     function_var |-> "Square",
     value_var |-> "0",
     audio |-> audio,
     process_sound_playing |-> FALSE,
     bg_music_playing |-> FALSE,
     duck_pos |-> <<FromInt(350), FromInt(250)>>,
     processing |-> FALSE,
     animation_progress |-> 0,
     input_value |-> 0,
     output_value |-> 0,
     outcome |-> "none"]

\* the program has been started
UIStarted == \E audio \in BOOLEAN : ui = NewUI(audio)

\* the program is not running
UIClosed == ui = [running |-> FALSE]

\* process(): the object after the call; outcome is "ok" or the exception
\* that was caught
process_result(u) ==
    LET parsed == ParseFloat(u.value_var)
    IN  IF ~parsed.ok THEN [u EXCEPT !.outcome = "ValueError"]
        ELSE IF u.function_var \notin DOMAIN UIFunctions
        THEN [u EXCEPT !.input_value = parsed.v, !.outcome = "Exception"]
        ELSE [u EXCEPT !.input_value = parsed.v,
                       !.output_value = UIApply(UIFunctions[u.function_var], parsed.v),
                       !.process_sound_playing = u.audio,
                       !.bg_music_playing = u.audio,
                       !.processing = TRUE,
                       !.animation_progress = 0,
                       !.duck_pos = <<FromInt(350), FromInt(250)>>,
                       !.outcome = "ok"]

\* the run() loop's step of the animation: if self.processing: ...
advance(u) ==
    IF u.processing
    THEN LET progress == FAdd(u.animation_progress, FromRatio(1, 10))
         IN  IF progress >= TwoPi
             THEN [u EXCEPT !.processing = FALSE, !.animation_progress = 0]
             ELSE [u EXCEPT !.animation_progress = progress]
    ELSE u

\* draw(): the duck's position and the stop of the background music
draw(u) ==
    IF u.processing
    THEN LET pos == <<FAdd(FromInt(350), FMul(MathCos(u.animation_progress), FromInt(30))),
                      FAdd(FromInt(250),
                           FMul(MathSin(FMul(u.animation_progress, FromInt(2))), FromInt(20)))>>
         IN  IF u.animation_progress >= TwoPi
             THEN [u EXCEPT !.duck_pos = pos,
                            !.bg_music_playing = IF u.audio THEN FALSE ELSE @]
             ELSE [u EXCEPT !.duck_pos = pos]
    ELSE u

\* one pass of the run() loop without a QUIT event, up to root.update()
run_iteration ==
    /\ ui.running
    /\ ui' = [draw(advance(ui)) EXCEPT !.outcome = "none"]
    /\ UNCHANGED <<X, y, loaded, log, req, res, paths>>

\* the QUIT event: the loop ends, pygame.quit() ends every sound and
\* root.destroy() the widgets
run_quit ==
    /\ ui.running
    /\ ui' = [running |-> FALSE]
    /\ UNCHANGED <<X, y, loaded, log, req, res, paths>>

\* the Process button is pressed: root.update() calls process()
process ==
    /\ ui.running
    /\ ui' = process_result(ui)
    /\ UNCHANGED <<X, y, loaded, log, req, res, paths>>

\* the user types in the entry
set_value(text) ==
    /\ ui.running
    /\ ui' = [ui EXCEPT !.value_var = text, !.outcome = "none"]
    /\ UNCHANGED <<X, y, loaded, log, req, res, paths>>

\* the user picks or types a function in the combobox
set_function(text) ==
    /\ ui.running
    /\ ui' = [ui EXCEPT !.function_var = text, !.outcome = "none"]
    /\ UNCHANGED <<X, y, loaded, log, req, res, paths>>

\* the sound played once by process_sound.play() comes to its end
sound_over ==
    /\ ui.running
    /\ ui.process_sound_playing
    /\ ui' = [ui EXCEPT !.process_sound_playing = FALSE, !.outcome = "none"]
    /\ UNCHANGED <<X, y, loaded, log, req, res, paths>>

-----------------------------------------------------------------------------
(* Specifications *)

Init == AppLoaded /\ CallIdle /\ DescentIdle /\ UIClosed

Next ==
    \E learning_rate \in LearningRates, iterations \in 0..MaxIter,
       function_select \in FunctionSelects :
        update_graphs(learning_rate, iterations, function_select)

\* the regression dashboard: invocations of update_graphs
Spec == Init /\ [][Next]_vars

\* the smallest learning rate of the slider, and fits of up to 2 * MaxIter steps
SmallRate == FromRatio(1, 100)

NextSmallRate ==
    \E iterations \in 1..(2 * MaxIter), function_select \in FunctionSelects :
        update_graphs(SmallRate, iterations, function_select)

\* the regression dashboard with the learning-rate slider at its minimum
SpecSmallRate == Init /\ [][NextSmallRate]_vars

InitRiemann == AppIdle /\ CallDrawn /\ DescentIdle /\ UIClosed

NextRiemann ==
    \/ call_get_function
    \/ call_get_function_and_derivative
    \/ call_calculate_riemann_sum
    \/ update_graph

\* the integrator and the function tables applied to drawn inputs
SpecRiemann == InitRiemann /\ [][NextRiemann]_vars

\* calls of the two descents: update_graphs at the learning rates that
\* move the parameters, with MaxIter steps and a polynomial derivative
\* plot, gradient_descent with MaxSteps
NextRuns ==
    \/ \E learning_rate \in LearningRates \ {0}, function_select \in {"x2", "x3"} :
          update_graphs(learning_rate, MaxIter, function_select)
    \/ \E start \in Starts, learning_rate \in DescentRates :
          call_gradient_descent(start[1], start[2], learning_rate, MaxSteps)

\* the regression dashboard and the surface descent, each called in turn
SpecRuns == Init /\ [][NextRuns]_vars

InitUI == AppIdle /\ CallIdle /\ DescentIdle /\ UIStarted

NextUI ==
    \/ run_iteration
    \/ run_quit
    \/ process
    \/ \E text \in ValueTexts : set_value(text)
    \/ \E text \in FunctionTexts : set_function(text)
    \/ sound_over

\* the function factory: the run() loop and the widgets' callbacks
SpecUI == InitUI /\ [][NextUI]_vars

InitDescent == AppIdle /\ CallIdle /\ DescentIdle /\ UIClosed

NextDescent ==
    \E start \in Starts, learning_rate \in DescentRates, n_steps \in 0..MaxSteps :
        call_gradient_descent(start[1], start[2], learning_rate, n_steps)

\* the surface descent: calls of gradient_descent
SpecDescent == InitDescent /\ [][NextDescent]_vars

-----------------------------------------------------------------------------
(* Properties of update_graphs, checked under Spec *)

\* the parameters held before step t of the invocation logged as e
PreStep(e, t) == IF t = 1 THEN <<0, 0>> ELSE e.parameter_history[t - 1]

\* the loss of the parameters th against the y the invocation e worked on
LossOf(e, th) == Loss(Predict(th[1], th[2], X), e.y_at_entry)

\* C1 as claimed: every invocation records iterations + 1 trajectory entries,
\* the first being the start point (0, 0), and iterations loss entries.
C1_TrajectoryHasStartPoint ==
    \A k \in 1..Len(log) :
        /\ Len(log[k].parameter_history) = log[k].iterations + 1
        /\ Len(log[k].loss_history) = log[k].iterations
        /\ log[k].parameter_history[1] = <<0, 0>>

\* C1 as amended: every invocation records exactly `iterations` trajectory
\* entries and `iterations` loss entries (the two lengths are equal); the
\* start point is not recorded, the entries are the parameters after each
\* step, the last of them being the final (theta0, theta1).
C1_TrajectoryShape ==
    \A k \in 1..Len(log) :
        /\ Len(log[k].parameter_history) = log[k].iterations
        /\ Len(log[k].loss_history) = log[k].iterations
        /\ log[k].iterations > 0 =>
              log[k].parameter_history[log[k].iterations]
                  = <<log[k].theta0, log[k].theta1>>

\* a fit of two steps or more with a non-zero learning rate has run
C1_Witness ==
    \E k \in 1..Len(log) :
        /\ log[k].iterations >= 2
        /\ log[k].learning_rate # 0
        /\ log[k].parameter_history[1] # <<0, 0>>

\* C2 as claimed: any two invocations with the same learning_rate and
\* iterations produce the same loss history and the same final parameters.
C2_SameArgumentsSameFit ==
    \A i \in 1..Len(log), j \in 1..Len(log) :
        (/\ log[i].learning_rate = log[j].learning_rate
         /\ log[i].iterations = log[j].iterations)
        => /\ log[i].loss_history = log[j].loss_history
           /\ log[i].theta0 = log[j].theta0
           /\ log[i].theta1 = log[j].theta1

\* C3 as claimed: the globals X and y keep the value and the shape they were
\* given at module load.
C3_DatasetUnchanged ==
    /\ X = loaded.X
    /\ y = loaded.y

\* C4 as claimed: loss_history[t] is the loss of the parameters held before
\* step t, so loss_history[0] is the loss at (0, 0), and the loss of the
\* final parameters is no entry of loss_history.
C4_FinalLossNeverAppears ==
    \A k \in 1..Len(log) :
        \A t \in 1..Len(log[k].loss_history) :
            /\ log[k].loss_history[t] = LossOf(log[k], PreStep(log[k], t))
            /\ log[k].loss_history[t] # LossOf(log[k], <<log[k].theta0, log[k].theta1>>)

\* C4 as amended: loss_history[t] is the loss of the parameters held before
\* step t against the y the invocation started with, so loss_history[0] is
\* the loss at (0, 0) for every learning rate and the last entry is the loss
\* of the parameters before the last update: no entry is computed from the
\* final parameters (whose loss may still have the same value).
C4_LossLagsUpdate ==
    \A k \in 1..Len(log) :
        \A t \in 1..Len(log[k].loss_history) :
            /\ log[k].loss_history[t] = LossOf(log[k], PreStep(log[k], t))
            /\ t = 1 => log[k].loss_history[t] = LossOf(log[k], <<0, 0>>)

\* a fit whose second loss differs from its first, and whose final
\* parameters have a loss that is not in the history
C4_Witness ==
    \E k \in 1..Len(log) :
        /\ log[k].iterations >= 2
        /\ log[k].loss_history[2] # log[k].loss_history[1]
        /\ \A t \in 1..Len(log[k].loss_history) :
              log[k].loss_history[t] # LossOf(log[k], <<log[k].theta0, log[k].theta1>>)

\* C5 as claimed: with learning_rate = 0 the parameters stay at (0, 0) and
\* every loss entry is mean(y^2) over the dataset.
C5_ZeroRateLossIsDatasetMean ==
    \A k \in 1..Len(log) :
        log[k].learning_rate = 0 =>
            /\ log[k].theta0 = 0 /\ log[k].theta1 = 0
            /\ \A t \in 1..Len(log[k].parameter_history) :
                  log[k].parameter_history[t] = <<0, 0>>
            /\ \A t \in 1..Len(log[k].loss_history) :
                  log[k].loss_history[t]
                      = FMean([i \in 1..Len(loaded.y.v) |-> Sq(loaded.y.v[i])])

\* C16 as claimed: within one invocation the main fit and the three impact
\* runs work on the same dataset, so that when learning_rate is one of the
\* impact rates 0.01, 0.1, 0.5 the impact loss curve of that rate is the
\* main fit's loss_history, entry by entry.
C16_ImpactCurveIsMainFit ==
    \A k \in 1..Len(log) :
        /\ log[k].y_at_exit = log[k].y_at_entry
        /\ \A r \in 1..Len(ImpactRates) :
              log[k].learning_rate = ImpactRates[r] =>
                  log[k].impact[r] = log[k].loss_history

\* The fits at the slider's smallest learning rate, checked under
\* SpecSmallRate.

\* a / b for b > 0
FDiv(a, b) == RoundDiv(a * Scale, b)

\* the ordinary-least-squares line <<intercept, slope>> of the dataset built
\* at module load
DatasetOLS ==
    LET xs == loaded.X
        ys == loaded.y.v
        xm == FMean(xs)
        ym == FMean(ys)
        sxy == FSum([i \in 1..Len(xs) |-> FMul(FSub(xs[i], xm), FSub(ys[i], ym))])
        sxx == FSum([i \in 1..Len(xs) |-> Sq(FSub(xs[i], xm))])
        slope == FDiv(sxy, sxx)
    IN  <<FSub(ym, FMul(slope, xm)), slope>>

\* the squared distance of the parameters th to the least-squares line
DistToOLS(th) ==
    FAdd(Sq(FSub(th[1], DatasetOLS[1])), Sq(FSub(th[2], DatasetOLS[2])))

\* the fit logged as e loses loss from step to step and gets nearer to the
\* least-squares line with every step
Descends(e) ==
    /\ \A t \in 1..(Len(e.loss_history) - 1) :
          e.loss_history[t + 1] <= e.loss_history[t]
    /\ \A t \in 1..Len(e.parameter_history) :
          DistToOLS(e.parameter_history[t]) <= DistToOLS(PreStep(e, t))

\* C13 as claimed: with a small learning rate the loss history of a fit is
\* non-increasing from step to step and the parameters approach the
\* ordinary-least-squares solution of the dataset as the steps grow.
C13_SmallRateDescends ==
    \A k \in 1..Len(log) :
        log[k].learning_rate = SmallRate => Descends(log[k])

\* the first invocation of a run does descend
C13_FirstFitDescends ==
    \A k \in 1..Len(log) :
        (k = 1 /\ log[k].learning_rate = SmallRate) => Descends(log[k])

-----------------------------------------------------------------------------
(* Properties of calculate_riemann_sum and the function tables, checked
   under SpecRiemann *)

\* a Riemann sum has been computed
RiemannDone == res # <<>> /\ req.op \in {"calculate_riemann_sum", "update_graph"}

\* the arguments calculate_riemann_sum was given
ArgF == IF req.op = "update_graph" THEN get_function(req.func_name)[1] ELSE req.f
ArgA == IF req.op = "update_graph" THEN 0 ELSE req.ab[1]
ArgB == IF req.op = "update_graph" THEN FromInt(2) ELSE req.ab[2]

\* the call riemann_sum("x^2", 0, 2, 4, "left") of the worked example
IsWorkedExample ==
    /\ req.n = 4
    /\ req.method = "left"
    /\ \/ req.op = "update_graph" /\ req.func_name = "x^2"
       \/ req.op = "calculate_riemann_sum" /\ req.f = "x**2" /\ req.ab = <<0, FromInt(2)>>

\* C6: the area is the sum over the n samples of the rectangle areas
\* f(sample_i) * dx; for x^2 on [0, 2] with n = 4 and the left rule the
\* samples are 0, 0.5, 1.0, 1.5, the rectangles 0, 0.125, 0.5, 1.125 and
\* the area 1.75.
C6_AreaIsSumOfRectangles ==
    RiemannDone =>
        LET r == res[1]
            rect == [i \in 1..Len(r.x_sample) |-> FMul(Apply(ArgF, r.x_sample[i]), r.dx)]
        IN  /\ Len(r.x_sample) = req.n
            /\ r.area = FSum(rect)
            /\ IsWorkedExample =>
                  /\ r.x_sample = <<0, FromRatio(1, 2), FromInt(1), FromRatio(3, 2)>>
                  /\ rect = <<0, FromRatio(1, 8), FromRatio(1, 2), FromRatio(9, 8)>>
                  /\ r.area = FromRatio(7, 4)

\* the worked example has been computed by the callback
C6_Witness ==
    /\ RiemannDone
    /\ req.op = "update_graph"
    /\ IsWorkedExample
    /\ res[1].area = FromRatio(7, 4)

\* C7 as claimed: x has n + 1 boundaries from a to b, there are n samples,
\* and dx = (b - a) / n with dx * n = b - a.
C7_StepTimesCountIsWidth ==
    RiemannDone =>
        LET r == res[1]
        IN  /\ Len(r.x) = req.n + 1
            /\ r.x[1] = ArgA
            /\ r.x[req.n + 1] = ArgB
            /\ Len(r.x_sample) = req.n
            /\ r.dx = FDivInt(FSub(ArgB, ArgA), req.n)
            /\ FTimes(req.n, r.dx) = FSub(ArgB, ArgA)

\* C7 as amended: x has n + 1 boundaries with x[0] = a and x[n] = b, there
\* are n samples, and dx is (b - a) / n rounded to the precision of the
\* arithmetic, so that dx * n equals b - a up to that rounding (half a unit
\* in the last place per sub-interval), not always exactly.
C7_StepTimesCountNearWidth ==
    RiemannDone =>
        LET r == res[1]
        IN  /\ Len(r.x) = req.n + 1
            /\ r.x[1] = ArgA
            /\ r.x[req.n + 1] = ArgB
            /\ Len(r.x_sample) = req.n
            /\ r.dx = FDivInt(FSub(ArgB, ArgA), req.n)
            /\ 2 * Abs(FTimes(req.n, r.dx) - FSub(ArgB, ArgA)) <= req.n

\* a partition whose width is no multiple of n has been computed
C7_Witness ==
    /\ RiemannDone
    /\ req.n >= 3
    /\ FTimes(req.n, res[1].dx) # FSub(ArgB, ArgA)

\* C8 as claimed: sample i is a + i*dx (left), a + (i+1)*dx (right) or the
\* mean of the two (any other method), and lies between them.
C8_SamplesFromStep ==
    RiemannDone =>
        LET r == res[1]
            lo(i) == FAdd(ArgA, FTimes(i - 1, r.dx))
            hi(i) == FAdd(ArgA, FTimes(i, r.dx))
        IN  \A i \in 1..req.n :
                /\ req.method = "left" => r.x_sample[i] = lo(i)
                /\ req.method = "right" => r.x_sample[i] = hi(i)
                /\ req.method = "midpoint" =>
                      r.x_sample[i] = FDivInt(FAdd(lo(i), hi(i)), 2)
                /\ lo(i) <= r.x_sample[i]
                /\ r.x_sample[i] <= hi(i)

\* C8 as amended: sample i is the returned boundary x[i] (left), x[i+1]
\* (right) or the mean of the two (midpoint) and lies between them, where
\* x[i] = a + i*dx for i < n and the last boundary x[n] is b itself, which
\* is a + n*dx only up to rounding.
C8_SamplesOnBoundaries ==
    RiemannDone =>
        LET r == res[1]
        IN  \A i \in 1..req.n :
                /\ r.x[i] = FAdd(ArgA, FTimes(i - 1, r.dx))
                /\ r.x[req.n + 1] = ArgB
                /\ req.method = "left" => r.x_sample[i] = r.x[i]
                /\ req.method = "right" => r.x_sample[i] = r.x[i + 1]
                /\ req.method = "midpoint" =>
                      r.x_sample[i] = FDivInt(FAdd(r.x[i], r.x[i + 1]), 2)
                /\ r.x[i] <= r.x_sample[i]
                /\ r.x_sample[i] <= r.x[i + 1]

\* a right-rule sum whose last sample b is not a + n*dx has been computed
C8_Witness ==
    /\ RiemannDone
    /\ req.method = "right"
    /\ res[1].x_sample[req.n] = ArgB
    /\ res[1].x_sample[req.n] # FAdd(ArgA, FTimes(req.n, res[1].dx))

\* C9: a method other than exactly "left" or "right" yields the samples and
\* the area of the midpoint rule, and no error.
C9_OtherMethodIsMidpoint ==
    (RiemannDone /\ req.method \notin {"left", "right"}) =>
        LET r == res[1]
        IN  /\ r = calculate_riemann_sum(ArgF, ArgA, ArgB, req.n, "midpoint")
            /\ \A i \in 1..req.n :
                  r.x_sample[i] = FDivInt(FAdd(r.x[i], r.x[i + 1]), 2)

\* a sum asked with "Left" has been computed and is not the left-rule sum
C9_Witness ==
    /\ RiemannDone
    /\ req.method = "Left"
    /\ res[1].area # calculate_riemann_sum(ArgF, ArgA, ArgB, req.n, "left").area

\* the keys of the two tables
IntegrationKeys == {"x^2", "x^3", "sin(x)", "e^x"}
DerivativeKeys == IntegrationKeys \cup {"ln(x)", "cos(x)", "tan(x)"}

\* C10: a lookup never fails: a key of the table yields the key's own entry
\* (the one labelled with it), any other identifier the entry of x^2.
C10_LookupDefaultsToSquare ==
    /\ (res # <<>> /\ req.op = "get_function") =>
          IF req.func_name \in IntegrationKeys
          THEN res[1][2] = "f(x) = " \o req.func_name
          ELSE res[1] = <<"x**2", "f(x) = x^2">>
    /\ (res # <<>> /\ req.op = "get_function_and_derivative") =>
          IF req.func_name \in DerivativeKeys
          THEN res[1][3] = "f(x) = " \o req.func_name
          ELSE res[1] = <<"x**2", "2*x", "f(x) = x^2", "f'(x) = 2x">>

\* the integrator has looked up ln(x), a key of the other table only
C10_Witness ==
    /\ res # <<>>
    /\ req.op = "get_function"
    /\ req.func_name = "ln(x)"
    /\ res[1][2] = "f(x) = x^2"

\* twelve times the integral of x**2 or x**3 over [a, b], a and b whole
\* numbers: 4 (b^3 - a^3) and 3 (b^4 - a^4); 12 * 8/3 and 12 * 4 on [0, 2]
TwelveIntegrals(f, a, b) ==
    LET ia == a \div Scale
        ib == b \div Scale
    IN  IF f = "x**2" THEN FromInt(4 * (ib * ib * ib - ia * ia * ia))
        ELSE FromInt(3 * (ib * ib * ib * ib - ia * ia * ia * ia))

\* C12: for x^2 and x^3, increasing and convex on [a, b] (on [0, 2] the
\* integrals are 8/3 and 4), and every n >= 1: left area <= integral <=
\* right area, and the midpoint area is closer to the integral than the
\* left and the right area for the same n.
C12_LeftBelowRightAboveMidpointNearest ==
    (RiemannDone /\ ArgF \in {"x**2", "x**3"}) =>
        LET I12 == TwelveIntegrals(ArgF, ArgA, ArgB)
            area(method) == calculate_riemann_sum(ArgF, ArgA, ArgB, req.n, method).area
            err(method) == Abs(12 * area(method) - I12)
        IN  /\ (ArgA = 0 /\ ArgB = FromInt(2)) =>
                  I12 = IF ArgF = "x**2" THEN FromInt(32) ELSE FromInt(48)
            /\ req.method = "left" => 12 * res[1].area <= I12
            /\ req.method = "right" => I12 <= 12 * res[1].area
            /\ req.method = "midpoint" =>
                  /\ Abs(12 * res[1].area - I12) < err("left")
                  /\ Abs(12 * res[1].area - I12) < err("right")
            /\ 12 * area("left") <= I12
            /\ I12 <= 12 * area("right")
            /\ err("midpoint") < err("left")
            /\ err("midpoint") < err("right")

\* the callback has computed the left sum of x^3 on [0, 2] with three
\* rectangles or more, strictly below the integral 4
C12_Witness ==
    /\ RiemannDone
    /\ req.op = "update_graph"
    /\ req.func_name = "x^3"
    /\ req.method = "left"
    /\ req.n >= 3
    /\ res[1].area > 0
    /\ res[1].area < FromInt(4)

-----------------------------------------------------------------------------
(* Properties of gradient_descent, checked under SpecDescent *)

\* C11: a call returns path_x and path_y of length n_steps + 1 whose first
\* elements are the start point, and path_z of length n_steps where
\* path_z[i] is the surface value at (path_x[i+1], path_y[i+1]); the start
\* point has no z, and with n_steps = 0 the result is the start point alone
\* with an empty path_z.
C11_PathShape ==
    \A k \in 1..Len(paths) :
        LET c == paths[k]
        IN  /\ Len(c.path_x) = c.n_steps + 1
            /\ Len(c.path_y) = c.n_steps + 1
            /\ c.path_x[1] = c.start_x
            /\ c.path_y[1] = c.start_y
            /\ Len(c.path_z) = c.n_steps
            /\ \A i \in 1..c.n_steps :
                  c.path_z[i] = Surface(c.path_x[i + 1], c.path_y[i + 1])
            /\ c.n_steps = 0 =>
                  /\ c.path_x = <<c.start_x>>
                  /\ c.path_y = <<c.start_y>>
                  /\ c.path_z = <<>>

\* a call of no step and a call of two steps or more that moved have been made
C11_Witness ==
    /\ \E k \in 1..Len(paths) : paths[k].n_steps = 0
    /\ \E k \in 1..Len(paths) :
          /\ paths[k].n_steps >= 2
          /\ paths[k].path_x[2] # paths[k].start_x
          /\ paths[k].path_z[1] # Surface(paths[k].start_x, paths[k].start_y)

-----------------------------------------------------------------------------
(* Properties of the two descents, checked under SpecRuns *)

\* the parameters after one step of the 1-D fit from th, at rate lr,
\* against ys
StepFrom(th, lr, ys) ==
    LET st == GDStep([theta0 |-> th[1], theta1 |-> th[2],
                      loss_history |-> <<>>, parameter_history |-> <<>>], lr, X, ys)
    IN  <<st.theta0, st.theta1>>

\* the point after one step of gradient_descent from pt at rate lr
PointFrom(pt, lr) ==
    LET p == DescentStep([current_x |-> pt[1], current_y |-> pt[2],
                          path_x |-> <<>>, path_y |-> <<>>, path_z |-> <<>>], lr)
    IN  <<p.current_x, p.current_y>>

\* C14: every descent run starts from the initial condition: the first step
\* of the main fit and of each of the three learning-rate-impact runs, in
\* the first and in every later invocation of update_graphs, is taken from
\* theta0 = theta1 = 0, and every call of gradient_descent starts at the
\* (start_x, start_y) it is given, whatever point an earlier run ended at.
C14_EveryRunStartsAfresh ==
    /\ \A k \in 1..Len(log) :
          LET e == log[k]
              zero_loss(ys) == Loss(Predict(0, 0, X), ys)
          IN  e.iterations >= 1 =>
                /\ e.loss_history[1] = zero_loss(e.y_at_entry)
                /\ e.parameter_history[1]
                      = StepFrom(<<0, 0>>, e.learning_rate, e.y_at_entry)
                /\ \A r \in 1..Len(ImpactRates) :
                      /\ e.impact[r][1] = zero_loss(e.y_at_exit)
                      /\ e.iterations >= 2 =>
                            e.impact[r][2]
                              = LET th == StepFrom(<<0, 0>>, ImpactRates[r], e.y_at_exit)
                                IN  Loss(Predict(th[1], th[2], X), e.y_at_exit)
    /\ \A k \in 1..Len(paths) :
          LET c == paths[k]
          IN  /\ c.path_x[1] = c.start_x
              /\ c.path_y[1] = c.start_y
              /\ c.n_steps >= 1 =>
                    <<c.path_x[2], c.path_y[2]>>
                        = PointFrom(<<c.start_x, c.start_y>>, c.learning_rate)

\* a second invocation of update_graphs has run after one that ended away
\* from (0, 0), and a second call of gradient_descent after one that ended
\* at another point than the second's start
C14_Witness ==
    /\ Len(log) >= 2
    /\ <<log[1].theta0, log[1].theta1>> # <<0, 0>>
    /\ log[2].iterations >= 2
    /\ log[1].impact[1][2] # log[1].impact[1][1]
    /\ Len(paths) >= 2
    /\ paths[1].n_steps >= 1
    /\ <<paths[1].path_x[paths[1].n_steps + 1], paths[1].path_y[paths[1].n_steps + 1]>>
          # <<paths[2].start_x, paths[2].start_y>>

\* the gradient of the surface with respect to y at (cx, cy)
GradY(cx, cy) == FSub(FMul(FromInt(2), cy), FMul(Sin(cy), Sin(cx)))

\* the derivative of the loss with respect to theta1 at th, against ys
DTheta1(th, ys) ==
    LET resid == Residuals(Predict(th[1], th[2], X), ys)
    IN  FMul(FNeg(FDivInt(FromInt(2), Len(X))), FSum(Weighted(X, resid, ys)))

\* C15: every step is a simultaneous update. In gradient_descent the point
\* i+1 of a path is the point i moved by learning_rate times grad_x and
\* grad_y, both taken at the point i (grad_y does not see the updated x); in
\* the 1-D fit the parameters after step t are those before it moved by
\* learning_rate times d_theta0 and d_theta1, both taken from the
\* predictions of the parameters before the step.
C15_StepsAreSimultaneous ==
    /\ \A k \in 1..Len(paths) :
          LET c == paths[k]
          IN  \A i \in 1..c.n_steps :
                LET cx == c.path_x[i]
                    cy == c.path_y[i]
                    grad_x == FAdd(cx, FMul(Cos(cy), Cos(cx)))
                IN  /\ c.path_x[i + 1] = FSub(cx, FMul(c.learning_rate, grad_x))
                    /\ c.path_y[i + 1] = FSub(cy, FMul(c.learning_rate, GradY(cx, cy)))
    /\ \A k \in 1..Len(log) :
          LET e == log[k]
          IN  \A t \in 1..Len(e.parameter_history) :
                LET pre == PreStep(e, t)
                    resid == Residuals(Predict(pre[1], pre[2], X), e.y_at_entry)
                    d_theta0 == FMul(FNeg(FDivInt(FromInt(2), Len(X))), FSum(resid))
                IN  /\ e.parameter_history[t][1]
                          = FSub(pre[1], FMul(e.learning_rate, d_theta0))
                    /\ e.parameter_history[t][2]
                          = FSub(pre[2], FMul(e.learning_rate, DTheta1(pre, e.y_at_entry)))

\* a path has a step whose y would differ had grad_y seen the updated x, and
\* a fit has a step whose theta1 would differ had d_theta1 seen the updated
\* theta0
C15_Witness ==
    /\ \E k \in 1..Len(paths) :
          LET c == paths[k]
          IN  /\ c.n_steps >= 2
              /\ c.path_y[3]
                    # FSub(c.path_y[2], FMul(c.learning_rate, GradY(c.path_x[3], c.path_y[2])))
    /\ \E k \in 1..Len(log) :
          LET e == log[k]
          IN  /\ e.iterations >= 2
              /\ e.parameter_history[2][2]
                    # FSub(e.parameter_history[1][2],
                           FMul(e.learning_rate,
                                DTheta1(<<e.parameter_history[2][1], e.parameter_history[1][2]>>,
                                        e.y_at_entry)))

-----------------------------------------------------------------------------
(* Properties of FunctionUI, checked under SpecUI *)

\* C17 as claimed: the background music that a successful process() starts
\* is stopped when the animation has run to its end (animation_progress has
\* reached 2*pi and processing is False again): no music plays while no
\* animation is in progress.
C17_NoMusicWithoutAnimation ==
    ui.running => (~ui.processing => ~ui.bg_music_playing)

\* the fields of the object that process() sets
Processed(u) ==
    <<u.input_value, u.output_value, u.processing, u.animation_progress, u.duck_pos>>

\* C18 as claimed: process() is all-or-nothing. When it fails (the entry's
\* text is no number, or the combobox's text is no key of the function
\* table) input_value, output_value, processing, animation_progress and
\* duck_pos keep their values and no sound is started; when it succeeds
\* output_value is the selected function of input_value, processing is True
\* and animation_progress is 0.
C18_ProcessAllOrNothing ==
    [][(ui.running /\ ui'.running) =>
          /\ ui'.outcome \in {"ValueError", "Exception"} =>
                /\ Processed(ui') = Processed(ui)
                /\ ui'.bg_music_playing = ui.bg_music_playing
                /\ ui'.process_sound_playing = ui.process_sound_playing
          /\ ui'.outcome = "ok" =>
                /\ ui'.input_value = ParseFloat(ui.value_var).v
                /\ ui'.output_value
                      = UIApply(UIFunctions[ui.function_var], ui'.input_value)
                /\ ui'.processing
                /\ ui'.animation_progress = 0]_vars

=============================================================================
